---- MODULE Spec2Model ----
(***************************************************************************)
(* Model of the AI review server: the webhook and direct-review request    *)
(* handlers of app.py, the signature verifier, and the ReviewResult data   *)
(* model of core/models.py.                                                *)
(*                                                                         *)
(* Python values are modelled as follows.                                  *)
(*   - a str / bytes value is a sequence of one-character strings;         *)
(*   - None, where a str may also occur, is the one-element sequence None  *)
(*     below (no str of the model contains that element);                  *)
(*   - a value whose Python type may vary (an AI-produced score, say) is a *)
(*     record [t |-> <type tag>, v |-> <payload>];                         *)
(*   - a dict / JSON object is a function whose domain is its key set;     *)
(*   - a raised exception is a record [raised |-> TRUE, exc |-> <type>].   *)
(***************************************************************************)
EXTENDS Integers, Sequences, FiniteSets, TLC

\* ------------------------------------------------------------------ bounds
\* Number of hex digits kept of the digest (the real digest has 64).
DigestLen == 2
\* Longest request body, in bytes, the model draws.
MaxBodyLen == 1
\* Longest ALLOWED_REPOS environment string, in characters.
MaxEnvLen == 2
\* Scores are drawn within ScoreSlack of the marks 0, 70 and 100.
ScoreSlack == 2
\* Longest vulnerabilities / issues list.
MaxEntries == 1

\* ----------------------------------------------------------- Python values
None == <<"None">>

\* Python truthiness of an Optional[str]: None and '' are falsy.
Truthy(s) == s # None /\ s # <<>>

SeqsUpTo(S, n) == UNION {[1..k -> S] : k \in 0..n}

\* ------------------------------------------------------ signature verifier
\* Bytes a request body or a secret is made of, and their codes.
ByteChars == {"x", "y"}

ByteCode(c) == IF c = "x" THEN 1 ELSE 2

HexDigits == <<"0", "1", "2", "3", "4", "5", "6", "7",
               "8", "9", "a", "b", "c", "d", "e", "f">>

RECURSIVE Pow16(_)
Pow16(n) == IF n = 0 THEN 1 ELSE 16 * Pow16(n - 1)

\* A keyed digest standing for HMAC-SHA256: a deterministic function of the
\* key and the message, reduced to DigestLen hex digits.
RECURSIVE Mix(_, _)
Mix(h, s) ==
    IF s = <<>> THEN h
    ELSE Mix((h * 31 + ByteCode(Head(s)) * 7 + 3) % Pow16(DigestLen), Tail(s))

hmac_digest(key, msg) == Mix((Mix(5, key) * 13 + 11) % Pow16(DigestLen), msg)

\* .hexdigest(): lower-case hex, most significant digit first.
hexdigest(n) ==
    [i \in 1..DigestLen |-> HexDigits[((n \div Pow16(DigestLen - i)) % 16) + 1]]

SigPrefix == <<"s", "h", "a", "2", "5", "6", "=">>

\* 'sha256=' + hmac.new(secret, payload_body, sha256).hexdigest()
expected_signature(secret, payload_body) ==
    SigPrefix \o hexdigest(hmac_digest(secret, payload_body))

\* Characters outside ASCII that a header may carry.
NonAscii == {"U+00E9"}

IsAscii(s) == \A i \in 1..Len(s) : s[i] \notin NonAscii

TypeError == [raised |-> TRUE, exc |-> "TypeError"]

Returned(b) == [raised |-> FALSE, exc |-> IF b THEN "True" ELSE "False"]

\* hmac.compare_digest on two str: a TypeError unless both are ASCII-only,
\* otherwise their equality.
compare_digest_Loose(a, b) ==
    IF ~(IsAscii(a) /\ IsAscii(b)) THEN TypeError
    ELSE Returned(Len(a) = Len(b)
                  /\ \A i \in 1..(Len(a) - 1) : a[i] = b[i])

compare_digest(a, b) ==
    IF ~(IsAscii(a) /\ IsAscii(b)) THEN TypeError
    ELSE Returned(a = b)

\* verify_github_signature, with the module global GITHUB_WEBHOOK_SECRET
\* passed as its first argument.
verify_github_signature(secret, payload_body, signature_header) ==
    IF ~Truthy(secret) THEN Returned(TRUE)
    ELSE IF ~Truthy(signature_header) THEN Returned(FALSE)
    ELSE compare_digest(expected_signature(secret, payload_body), signature_header)

\* ------------------------------------------------------------- input sets
Secrets == {None, <<>>, <<"x">>, <<"y">>}

Bodies == SeqsUpTo(ByteChars, MaxBodyLen)

\* s with its i-th character replaced by c.
Mutate(s, i, c) == [s EXCEPT ![i] = c]

MutationChars == {"0", "f", "F", "="} \cup NonAscii

\* Headers near an accepted one: the accepted header, each single-character
\* mutation of it, the header cut short or extended by one character.
HeadersNear(e) ==
    {e, SubSeq(e, 1, Len(e) - 1), SubSeq(e, 2, Len(e))}
    \cup {Mutate(e, i, c) : i \in 1..Len(e), c \in MutationChars}
    \cup {Append(e, c) : c \in MutationChars}

AllHeaders ==
    {None, <<>>}
    \cup UNION {HeadersNear(expected_signature(k, b)) :
                    k \in {<<"x">>, <<"y">>}, b \in Bodies}

\* ------------------------------------------------------------ result model
\* Python values of varying type: [t |-> type name, v |-> payload].
PyInt(n) == [t |-> "int", v |-> n]

\* A float, held in hundredths (ai_confidence 0.85 is PyFloat(85)).
PyFloat(h) == [t |-> "float", v |-> h]

PyStr(s) == [t |-> "str", v |-> s]

PyNone == [t |-> "NoneType", v |-> "None"]

\* A value of type t where a number is expected (a str, None): its payload
\* plays no part and is left out.
NonNumeric(t) == [t |-> t, v |-> 0]

IsNumber(x) == x.t \in {"int", "float"}

\* The number x as hundredths, so that an int and a float compare.
Hundredths(x) == IF x.t = "int" THEN x.v * 100 ELSE x.v

\* Python's a < b on numbers.
Less(a, b) == Hundredths(a) < Hundredths(b)

\* Python's min(a, b) and max(a, b): the first argument unless the second is
\* strictly smaller (larger).
py_min(a, b) == IF Less(b, a) THEN b ELSE a

py_max(a, b) == IF Less(a, b) THEN b ELSE a

\* max(lo, min(hi, x)): a TypeError when x is no number (str and NoneType do
\* not order against int), else the clamped value.
clamp_NoUpper(lo, hi, x) ==
    IF ~IsNumber(x) THEN TypeError
    ELSE [raised |-> FALSE, exc |-> "", val |-> py_max(lo, x)]

clamp(lo, hi, x) ==
    IF ~IsNumber(x) THEN TypeError
    ELSE [raised |-> FALSE, exc |-> "", val |-> py_max(lo, py_min(hi, x))]

valid_approvals == {PyStr("APPROVE"), PyStr("REQUEST_CHANGES"), PyStr("COMMENT")}

normalize_approval_Keep(approval) == approval

\* if self.approval not in valid_approvals: self.approval = 'COMMENT'
normalize_approval(approval) ==
    IF approval \notin valid_approvals THEN PyStr("COMMENT") ELSE approval

\* ReviewResult.__post_init__ applied to the constructor's arguments: the
\* constructed object, or the exception the construction raises.  The
\* statements run in source order, so the first failing clamp decides.
\* (timestamp is not modelled.)
ReviewResult_post_init(raw) ==
    LET s == clamp(PyInt(0), PyInt(100), raw.security_score)
        q == clamp(PyInt(0), PyInt(100), raw.quality_score)
        c == clamp(PyFloat(0), PyFloat(100), raw.ai_confidence)
    IN  IF s.raised \/ q.raised \/ c.raised
        THEN [raised |-> TRUE, exc |-> "TypeError"]
        ELSE [raised |-> FALSE, exc |-> "",
              obj |-> [raw EXCEPT !.security_score = s.val,
                                  !.quality_score = q.val,
                                  !.ai_confidence = c.val,
                                  !.approval = normalize_approval(raw.approval)]]

\* A vulnerabilities / issues entry: a typed record (a Vulnerability or
\* CodeIssue dataclass instance: kind "obj") or a mapping (kind "dict"),
\* with its fields / keys in d; or a plain string (kind "str"), which the
\* untyped lists of a ReviewResult also accept.
Entry(kind, d) == [kind |-> kind, d |-> d]

\* Vulnerability(type, severity, file) / CodeIssue(type, severity, file):
\* the fields the server reads, description and recommendation at their
\* defaults.
TypedRecord(type, severity, file) ==
    Entry("obj", [type |-> type, severity |-> severity, file |-> file,
                  description |-> "", recommendation |-> ""])

NoKeys == [k \in {} |-> ""]

\* dict.get(key): the value, or None when the key is absent.
dict_get(d, key) == IF key \in DOMAIN d THEN d[key] ELSE "None"

AttributeError == [raised |-> TRUE, exc |-> "AttributeError"]

\* entry.get('severity') as the property code calls it: only a dict has a
\* .get method; a dataclass instance raises AttributeError.
entry_get(e, key) ==
    IF e.kind = "dict"
    THEN [raised |-> FALSE, exc |-> "", val |-> dict_get(e.d, key)]
    ELSE AttributeError

\* Number of indices of list l whose entry's severity is in sevs.
CountSeverity(l, sevs) ==
    Cardinality({i \in DOMAIN l : entry_get(l[i], "severity").val \in sevs})

\* Whether .get('severity') raises on some entry of list l.
GetRaises(l) == \E i \in DOMAIN l : entry_get(l[i], "severity").raised

\* ReviewResult.critical_issues_count: both loops run to their end unless an
\* entry's .get raises.
critical_issues_count(self) ==
    IF GetRaises(self.vulnerabilities) \/ GetRaises(self.issues)
    THEN AttributeError
    ELSE [raised |-> FALSE, exc |-> "",
          val |-> CountSeverity(self.vulnerabilities, {"CRITICAL", "HIGH"})
                  + CountSeverity(self.issues, {"HIGH"})]

\* ReviewResult.needs_attention: `or` evaluates left to right and stops at
\* the first true operand, so critical_issues_count is read only when both
\* scores are at least 70.
needs_attention(self) ==
    IF Less(self.security_score, PyInt(70)) \/ Less(self.quality_score, PyInt(70))
    THEN [raised |-> FALSE, exc |-> "", val |-> TRUE]
    ELSE LET c == critical_issues_count(self)
         IN  IF c.raised THEN AttributeError
             ELSE [raised |-> FALSE, exc |-> "",
                   val |-> (c.val > 0 \/ self.approval = PyStr("REQUEST_CHANGES"))]

\* ------------------------------------------------------------------ state
VARIABLES
    GITHUB_WEBHOOK_SECRET,  \* module global: the shared secret, or None
    ALLOWED_REPOS_env,      \* os.environ.get('ALLOWED_REPOS'), or None
    ALLOWED_REPOS,          \* module global: the allow-list, a list of str
    pc,                     \* where the request being handled stands
    request,                \* the request: route, raw body, header, JSON
    trace,                  \* the calls made for this request, in order
    verified,               \* what verify_github_signature gave
    raw_output,             \* the AI's raw verdict (ReviewResult's arguments)
    review_result,          \* the ReviewResult, or the exception raised
    props,                  \* derived properties read from the ReviewResult
    response                \* the HTTP response of this request

vars == <<GITHUB_WEBHOOK_SECRET, ALLOWED_REPOS_env, ALLOWED_REPOS, pc, request, trace, verified,
          raw_output, review_result, props, response>>

config == <<GITHUB_WEBHOOK_SECRET, ALLOWED_REPOS_env, ALLOWED_REPOS>>

\* ---------------------------------------------------------- configuration
EnvChars == {"a", "b", ","}

\* os.environ.get('ALLOWED_REPOS'): None when unset.
EnvValues == {None} \cup SeqsUpTo(EnvChars, MaxEnvLen)

HasComma(s) == \E i \in 1..Len(s) : s[i] = ","

FirstComma(s) == CHOOSE i \in 1..Len(s) : s[i] = "," /\ \A j \in 1..(i - 1) : s[j] # ","

\* str.split(','): the pieces between commas, empty pieces kept.
RECURSIVE split(_)
split(s) ==
    IF ~HasComma(s) THEN <<s>>
    ELSE <<SubSeq(s, 1, FirstComma(s) - 1)>>
         \o split(SubSeq(s, FirstComma(s) + 1, Len(s)))

\* os.environ.get('ALLOWED_REPOS', '').split(',') if os.environ.get(
\* 'ALLOWED_REPOS') else []
parse_allowed_repos(env) == IF Truthy(env) THEN split(env) ELSE <<>>

InList(x, l) == \E i \in DOMAIN l : l[i] = x

\* --------------------------------------------------------------- requests
\* What request.get_json() meets: a JSON object (t = "object", its keys and
\* values in v), a JSON array (t = "array", its elements in a), JSON null
\* (giving None), or a body that is no usable JSON (t = "invalid": get_json
\* raises).
Json(t, v, a) == [t |-> t, v |-> v, a |-> a]

JsonObject(f) == Json("object", f, <<>>)

JsonArray(l) == Json("array", NoKeys, l)

JsonInvalid == Json("invalid", NoKeys, <<>>)

JsonNull == Json("null", NoKeys, <<>>)

Restrict(f, K) == [k \in K |-> f[k]]

RepoNames == {<<"a">>, <<"b">>}

WebhookActions == {"opened", "synchronize", "reopened", "closed"}

RepositoryObjects == {NoKeys} \cup {[full_name |-> n] : n \in RepoNames}

PullRequestObjects ==
    {Restrict([number |-> "7", title |-> "t", body |-> "b"], K) :
        K \in {{"number"}, {"number", "title"}, {"number", "title", "body"}}}

\* Webhook payloads: JSON objects with any subset of the keys the handler
\* reads, and bodies that are not objects.
WebhookPayloads ==
    {JsonInvalid, JsonNull, JsonArray(<<>>)}
    \cup {JsonObject(Restrict([action |-> a, repository |-> r, pull_request |-> p], K)) :
            a \in WebhookActions, r \in RepositoryObjects, p \in PullRequestObjects,
            K \in SUBSET {"action", "repository", "pull_request"}}

required_fields == <<"pr_title", "pr_body", "files">>

ReviewKeys == {"pr_title", "pr_body", "files", "preferences"}

\* Direct-review bodies: objects with any subset of the keys, JSON arrays
\* (of strings), null, and no usable JSON.
ReviewPayloads ==
    {JsonInvalid, JsonNull, JsonArray(<<>>), JsonArray(required_fields),
     JsonArray(<<"files">>)}
    \cup {JsonObject([k \in K |-> "v"]) : K \in SUBSET ReviewKeys}

NoRequest == [route |-> "none", data |-> <<>>, signature |-> None, json |-> JsonNull]

\* Raw bodies of the webhook requests (the verifier is run on every body of
\* Bodies on its own, under SpecVerify).
RequestBodies == {<<>>, <<"x">>}

\* Signature headers the webhook requests carry for body `data`.
RequestHeaders(data) ==
    LET e == expected_signature(<<"x">>, data)
    IN  {None, e, Mutate(e, Len(e), "="), Mutate(e, 1, "U+00E9"),
         expected_signature(<<"y">>, data)}

\* -------------------------------------------------------------- responses
Response(status, body) == [status |-> status, body |-> body]

NoResponse == Response(0, NoKeys)

\* The handlers' `except Exception as e` clause: 500 with str(e).
InternalError(exc) ==
    Response(500, [error |-> "Internal server error", message |-> exc])

NotRun == [raised |-> FALSE, exc |-> "NotRun"]

NoRaw == [security_score |-> PyInt(0), quality_score |-> PyInt(0),
          vulnerabilities |-> <<>>, issues |-> <<>>, summary |-> "",
          recommendations |-> <<>>, approval |-> PyStr("COMMENT"),
          ai_confidence |-> PyFloat(0)]

NoProps == [critical_issues_count |-> NotRun, needs_attention |-> NotRun]

\* --------------------------------------------------------- handler logic
Continue == [done |-> FALSE, response |-> NoResponse]

Done(r) == [done |-> TRUE, response |-> r]

accepted_actions == {"opened", "synchronize", "reopened"}

webhook_dispatch_AllowFirst(json, allowed) ==
    IF json.t = "invalid" THEN Done(InternalError("BadRequest"))
    ELSE IF json.t # "object" THEN Done(InternalError("AttributeError"))
    ELSE LET payload == json.v
         IN  IF "repository" \notin DOMAIN payload
                \/ "full_name" \notin DOMAIN payload["repository"]
             THEN Done(InternalError("KeyError"))
             ELSE IF allowed # <<>>
                     /\ ~InList(payload["repository"]["full_name"], allowed)
             THEN Done(Response(403, [error |-> "Repository not allowed"]))
             ELSE IF dict_get(payload, "action") \notin accepted_actions
             THEN Done(Response(200, [message |-> "Event ignored"]))
             ELSE IF "pull_request" \notin DOMAIN payload
                     \/ "number" \notin DOMAIN payload["pull_request"]
                     \/ "title" \notin DOMAIN payload["pull_request"]
             THEN Done(InternalError("KeyError"))
             ELSE Continue

webhook_dispatch_NoAllowList(json, allowed) ==
    IF json.t = "invalid" THEN Done(InternalError("BadRequest"))
    ELSE IF json.t # "object" THEN Done(InternalError("AttributeError"))
    ELSE LET payload == json.v
         IN  IF dict_get(payload, "action") \notin accepted_actions
             THEN Done(Response(200, [message |-> "Event ignored"]))
             ELSE IF "repository" \notin DOMAIN payload
                     \/ "full_name" \notin DOMAIN payload["repository"]
             THEN Done(InternalError("KeyError"))
             ELSE IF "pull_request" \notin DOMAIN payload
                     \/ "number" \notin DOMAIN payload["pull_request"]
                     \/ "title" \notin DOMAIN payload["pull_request"]
             THEN Done(InternalError("KeyError"))
             ELSE Continue

\* github_webhook, from request.get_json() to the extraction of the PR
\* fields: the response when the handler returns or raises there, or
\* Continue when it goes on to fetch the files.
webhook_dispatch(json, allowed) ==
    IF json.t = "invalid" THEN Done(InternalError("BadRequest"))
    ELSE IF json.t # "object" THEN Done(InternalError("AttributeError"))
    ELSE LET payload == json.v
         IN  IF dict_get(payload, "action") \notin accepted_actions
             THEN Done(Response(200, [message |-> "Event ignored"]))
             ELSE IF "repository" \notin DOMAIN payload
                     \/ "full_name" \notin DOMAIN payload["repository"]
             THEN Done(InternalError("KeyError"))
             ELSE IF allowed # <<>>
                     /\ ~InList(payload["repository"]["full_name"], allowed)
             THEN Done(Response(403, [error |-> "Repository not allowed"]))
             ELSE IF "pull_request" \notin DOMAIN payload
                     \/ "number" \notin DOMAIN payload["pull_request"]
                     \/ "title" \notin DOMAIN payload["pull_request"]
             THEN Done(InternalError("KeyError"))
             ELSE Continue

\* `field in data` of Python: key membership for a dict, element membership
\* for a list.
py_in(field, json) ==
    IF json.t = "object" THEN field \in DOMAIN json.v ELSE InList(field, json.a)

MissingFields == Response(400, [error |-> "Missing required fields",
                                required |-> required_fields])

\* manual_review, from request.get_json() to the evaluation of the AI call's
\* arguments (data['pr_title'] on a list raises TypeError).
review_validate(json) ==
    IF json.t = "invalid" THEN Done(InternalError("BadRequest"))
    ELSE IF json.t = "null" THEN Done(InternalError("TypeError"))
    ELSE IF ~(\A i \in DOMAIN required_fields : py_in(required_fields[i], json))
    THEN Done(MissingFields)
    ELSE IF json.t # "object" THEN Done(InternalError("TypeError"))
    ELSE Continue

\* What the AI collaborator can do with one call: fail, or produce a raw
\* verdict.
AIOutcome(ok, raw) == [ok |-> ok, raw |-> raw]

DictEntry(sev) == Entry("dict", [severity |-> sev])

AIVerdicts ==
    {[NoRaw EXCEPT !.security_score = PyInt(85), !.quality_score = PyInt(90),
                   !.approval = PyStr("APPROVE"), !.ai_confidence = PyFloat(90),
                   !.summary = "s"],
     [NoRaw EXCEPT !.security_score = PyInt(150), !.quality_score = PyInt(-5),
                   !.approval = PyStr("LGTM"), !.ai_confidence = PyFloat(150),
                   !.vulnerabilities = <<DictEntry("HIGH")>>,
                   !.recommendations = <<"r">>],
     [NoRaw EXCEPT !.security_score = NonNumeric("str")]}

AIOutcomes == {AIOutcome(FALSE, NoRaw)} \cup {AIOutcome(TRUE, r) : r \in AIVerdicts}

\* ai_reviewer.generate_review_async: raises on an upstream failure, else
\* builds the ReviewResult from the raw verdict.
generate_review_async(outcome) ==
    IF ~outcome.ok THEN [raised |-> TRUE, exc |-> "UpstreamError"]
    ELSE ReviewResult_post_init(outcome.raw)

\* --------------------------------------------------------------- renderer
\* serialize_object: vars(obj) for a typed record, the dict itself for a
\* dict, str(obj) for anything else.
serialize_object(e) ==
    IF e.kind \in {"obj", "dict"} THEN [t |-> "dict", v |-> e.d]
    ELSE [t |-> "str", v |-> NoKeys]

serialize_list(items) == [i \in DOMAIN items |-> serialize_object(items[i])]

\* dict.get(key, default).
dict_get_default(d, key, default) == IF key \in DOMAIN d THEN d[key] ELSE default

\* One line of report_lines: the section it belongs to, the number of the
\* entry it belongs to (0 outside entries), what the line is, and the text
\* and the number it shows.
Line(sec, n, what, val, num) ==
    [sec |-> sec, n |-> n, what |-> what, val |-> val, num |-> num]

Blank(sec, n) == Line(sec, n, "blank", <<>>, 0)

\* get_score_emoji
get_score_emoji(score) ==
    IF ~Less(score, PyInt(90)) THEN "Excellent"
    ELSE IF ~Less(score, PyInt(70)) THEN "Good"
    ELSE IF ~Less(score, PyInt(50)) THEN "Fair"
    ELSE "Poor"

\* get_severity_emoji: severity_map.get(severity, <generic marker>)
get_severity_emoji(severity) ==
    CASE severity = "CRITICAL" -> "siren"
      [] severity = "HIGH" -> "red"
      [] severity = "MEDIUM" -> "yellow"
      [] severity = "LOW" -> "green"
      [] OTHER -> "warning"

Upper(c) == CASE c = "s" -> "S" [] c = "q" -> "Q" [] OTHER -> c

Lower(c) == CASE c = "S" -> "s" [] c = "Q" -> "q" [] c = "U" -> "u" [] OTHER -> c

\* .replace('_', ' ')
replace_underscores(s) == [i \in DOMAIN s |-> IF s[i] = "_" THEN " " ELSE s[i]]

\* str.title(): the first letter of every word in upper case, the other
\* letters in lower case.
title(s) ==
    [i \in DOMAIN s |-> IF i = 1 \/ s[i - 1] = " " THEN Upper(s[i]) ELSE Lower(s[i])]

Unknown == <<"U", "n", "k", "n", "o", "w", "n">>

\* Whether rendering entry e raises: str has no .get, and None (the value
\* of a 'type' key) has no .replace.
entry_raises(e) ==
    \/ serialize_object(e).t # "dict"
    \/ dict_get_default(serialize_object(e).v, "type", Unknown) = None

\* The lines generate_markdown_report appends for the i-th entry of a
\* vulnerabilities or issues list.
entry_lines_ZeroBased(sec, i, e) ==
    LET d == serialize_object(e).v
        n == i - 1
        severity == dict_get_default(d, "severity", "MEDIUM")
    IN  <<Line(sec, n, "entry", title(replace_underscores(
                        dict_get_default(d, "type", Unknown))), 0),
          Blank(sec, n),
          Line(sec, n, "file", <<dict_get_default(d, "file", "N/A")>>, 0),
          Line(sec, n, "severity", <<severity, get_severity_emoji(severity)>>, 0),
          Blank(sec, n),
          Line(sec, n, "description",
               <<dict_get_default(d, "description", "No description provided")>>, 0),
          Blank(sec, n),
          Line(sec, n, "recommendation",
               <<dict_get_default(d, "recommendation", "No recommendation provided")>>, 0),
          Blank(sec, n)>>

entry_lines(sec, i, e) ==
    LET d == serialize_object(e).v
        severity == dict_get_default(d, "severity", "MEDIUM")
    IN  <<Line(sec, i, "entry", title(replace_underscores(
                        dict_get_default(d, "type", Unknown))), 0),
          Blank(sec, i),
          Line(sec, i, "file", <<dict_get_default(d, "file", "N/A")>>, 0),
          Line(sec, i, "severity", <<severity, get_severity_emoji(severity)>>, 0),
          Blank(sec, i),
          Line(sec, i, "description",
               <<dict_get_default(d, "description", "No description provided")>>, 0),
          Blank(sec, i),
          Line(sec, i, "recommendation",
               <<dict_get_default(d, "recommendation", "No recommendation provided")>>, 0),
          Blank(sec, i)>>

\* The loop `for i, entry in enumerate(entries, 1)` from entry number i on.
RECURSIVE entries_loop(_, _, _)
entries_loop(sec, entries, i) ==
    IF i > Len(entries) THEN <<>>
    ELSE entry_lines(sec, i, entries[i]) \o entries_loop(sec, entries, i + 1)

\* `if entries:` the section heading, then the lines of each entry in list
\* order, numbered by enumerate(entries, 1).
entries_section(sec, entries) ==
    IF entries = <<>> THEN <<>>
    ELSE <<Line(sec, 0, "heading", <<>>, Len(entries)), Blank(sec, 0)>>
         \o entries_loop(sec, entries, 1)

\* `if summary:` heading and text.
summary_section(summary) ==
    IF summary = "" THEN <<>>
    ELSE <<Line("summary", 0, "heading", <<>>, 0), Blank("summary", 0),
           Line("summary", 0, "text", <<summary>>, 0), Blank("summary", 0)>>

\* `if recommendations:` heading and the numbered items of the list.
recommendations_section(recommendations) ==
    IF recommendations = <<>> THEN <<>>
    ELSE <<Line("recommendations", 0, "heading", <<>>, 0),
           Blank("recommendations", 0)>>
         \o [i \in DOMAIN recommendations |->
               Line("recommendations", i, "item", <<recommendations[i]>>, 0)]
         \o <<Blank("recommendations", 0)>>

ReportTitle == Line("header", 0, "title", <<>>, 0)

\* The document the except clause of generate_markdown_report returns.
error_document(exc) ==
    [kind |-> "error",
     lines |-> <<ReportTitle, Blank("header", 0),
                 Line("error", 0, "error", <<exc>>, 0)>>]

\* generate_markdown_report(review_result, pr_data): report_lines in order,
\* or the error document when building them raises.
generate_markdown_report(rr, pr_data) ==
    IF \E i \in DOMAIN rr.vulnerabilities : entry_raises(rr.vulnerabilities[i])
    THEN error_document("AttributeError")
    ELSE IF \E i \in DOMAIN rr.issues : entry_raises(rr.issues[i])
    THEN error_document("AttributeError")
    ELSE
    [kind |-> "report",
     lines |->
        <<ReportTitle, Blank("header", 0),
          Line("header", 0, "pr", <<dict_get_default(pr_data, "title", "N/A"),
                                    dict_get_default(pr_data, "number", "N/A")>>, 0),
          Line("header", 0, "generated", <<"utcnow">>, 0),
          Line("header", 0, "confidence", <<>>, Hundredths(rr.ai_confidence)),
          Blank("header", 0),
          Line("scores", 0, "heading", <<>>, 0), Blank("scores", 0),
          Line("scores", 0, "table_head", <<>>, 0),
          Line("scores", 0, "table_rule", <<>>, 0),
          Line("scores", 0, "security", <<get_score_emoji(rr.security_score)>>,
               rr.security_score.v),
          Line("scores", 0, "quality", <<get_score_emoji(rr.quality_score)>>,
               rr.quality_score.v),
          Blank("scores", 0),
          Line("recommendation", 0, "heading", <<rr.approval.v>>, 0),
          Blank("recommendation", 0)>>
        \o summary_section(rr.summary)
        \o entries_section("vulnerabilities", rr.vulnerabilities)
        \o entries_section("issues", rr.issues)
        \o recommendations_section(rr.recommendations)
        \o <<Line("footer", 0, "rule", <<>>, 0),
             Line("footer", 0, "generated_by", <<>>, 0)>>]

\* The pr_data manual_review hands to the renderer (lines 183-187).
manual_pr_data(data) ==
    [title |-> data["pr_title"],
     number |-> dict_get_default(data, "pr_number", "manual"),
     html_url |-> dict_get_default(data, "pr_url", "#")]

\* The 'review' object of the webhook's success response.
webhook_review(rr) ==
    [security_score |-> rr.security_score,
     quality_score |-> rr.quality_score,
     approval |-> rr.approval,
     confidence |-> rr.ai_confidence,
     vulnerabilities_count |-> Len(rr.vulnerabilities),
     issues_count |-> Len(rr.issues)]

\* The 'review' object of the direct review's success response.
manual_review_review(rr) ==
    [security_score |-> rr.security_score,
     quality_score |-> rr.quality_score,
     approval |-> rr.approval,
     confidence |-> rr.ai_confidence,
     summary |-> rr.summary,
     vulnerabilities |-> serialize_list(rr.vulnerabilities),
     issues |-> serialize_list(rr.issues),
     recommendations |-> rr.recommendations]

\* ------------------------------------------------------------- the server
\* The state once the module is loaded: the globals read from the
\* environment, no request in hand.
Init ==
    /\ GITHUB_WEBHOOK_SECRET \in {None, <<"x">>}
    /\ ALLOWED_REPOS_env \in EnvValues
    /\ ALLOWED_REPOS = parse_allowed_repos(ALLOWED_REPOS_env)
    /\ pc = "idle"
    /\ request = NoRequest
    /\ trace = <<>>
    /\ verified = NotRun
    /\ raw_output = NoRaw
    /\ review_result = NotRun
    /\ props = NoProps
    /\ response = NoResponse

\* The handler returns `r`: the request is answered.
Respond(r) == response' = r /\ pc' = "done"

\* POST /webhook/github arrives.
WebhookReceive ==
    /\ pc = "idle"
    /\ \E data \in RequestBodies, json \in WebhookPayloads :
         \E sig \in RequestHeaders(data) :
            request' = [route |-> "webhook", data |-> data,
                        signature |-> sig, json |-> json]
    /\ pc' = "wh_verify"
    /\ UNCHANGED <<config, trace, verified, raw_output, review_result, props, response>>

WebhookVerify_SkipReject ==
    /\ pc = "wh_verify"
    /\ verified' = verify_github_signature(GITHUB_WEBHOOK_SECRET, request.data,
                                           request.signature)
    /\ trace' = Append(trace, "verify_github_signature")
    /\ pc' = "wh_dispatch"
    /\ UNCHANGED <<config, request, raw_output, review_result, props, response>>

\* github_webhook, lines 98-101: the signature check.
WebhookVerify ==
    /\ pc = "wh_verify"
    /\ LET v == verify_github_signature(GITHUB_WEBHOOK_SECRET, request.data,
                                        request.signature)
       IN  /\ verified' = v
           /\ trace' = Append(trace, "verify_github_signature")
           /\ IF v.raised THEN Respond(InternalError(v.exc))
              ELSE IF v.exc = "False"
              THEN Respond(Response(401, [error |-> "Invalid signature"]))
              ELSE pc' = "wh_dispatch" /\ UNCHANGED response
    /\ UNCHANGED <<config, request, raw_output, review_result, props>>

\* github_webhook, lines 103-119: parse, filter by action, allow-list,
\* extract the PR fields.
WebhookDispatch ==
    /\ pc = "wh_dispatch"
    /\ trace' = Append(trace, "get_json")
    /\ LET d == webhook_dispatch(request.json, ALLOWED_REPOS)
       IN  IF d.done THEN Respond(d.response)
           ELSE pc' = "wh_fetch" /\ UNCHANGED response
    /\ UNCHANGED <<config, request, verified, raw_output, review_result, props>>

\* github_webhook, line 123: await get_pr_files (a placeholder that returns
\* a fixed list).
WebhookFetch ==
    /\ pc = "wh_fetch"
    /\ trace' = Append(trace, "get_pr_files")
    /\ pc' = "wh_review"
    /\ UNCHANGED <<config, request, verified, raw_output, review_result, props, response>>

CallReviewer_Retry(outcome, next) ==
    /\ trace' = Append(trace, "generate_review_async")
    /\ raw_output' = outcome.raw
    /\ review_result' = generate_review_async(outcome)
    /\ IF review_result'.raised /\ Len(trace) < 4 THEN UNCHANGED <<pc, response>>
       ELSE IF review_result'.raised THEN Respond(InternalError(review_result'.exc))
       ELSE pc' = next /\ UNCHANGED response

\* The await of ai_reviewer.generate_review_async, in either handler.
CallReviewer(outcome, next) ==
    /\ trace' = Append(trace, "generate_review_async")
    /\ raw_output' = outcome.raw
    /\ review_result' = generate_review_async(outcome)
    /\ IF review_result'.raised THEN Respond(InternalError(review_result'.exc))
       ELSE pc' = next /\ UNCHANGED response

\* github_webhook, lines 126-130.
WebhookReview ==
    /\ pc = "wh_review"
    /\ \E outcome \in AIOutcomes : CallReviewer(outcome, "wh_report")
    /\ UNCHANGED <<config, request, verified, props>>

\* github_webhook, lines 133-150: render the report and answer.
WebhookRespond ==
    /\ pc = "wh_report"
    /\ trace' = Append(trace, "generate_markdown_report")
    /\ Respond(Response(200,
          [success |-> TRUE,
           pr_number |-> request.json.v["pull_request"]["number"],
           repository |-> request.json.v["repository"]["full_name"],
           review |-> webhook_review(review_result.obj),
           markdown_report |-> generate_markdown_report(review_result.obj,
                                 request.json.v["pull_request"])]))
    /\ UNCHANGED <<config, request, verified, raw_output, review_result, props>>

\* POST /review arrives.
ReviewReceive ==
    /\ pc = "idle"
    /\ \E json \in ReviewPayloads :
         request' = [route |-> "review", data |-> <<>>, signature |-> None,
                     json |-> json]
    /\ pc' = "rv_validate"
    /\ UNCHANGED <<config, trace, verified, raw_output, review_result, props, response>>

\* manual_review, lines 165-172 and the argument evaluation of 176-179.
ReviewValidate ==
    /\ pc = "rv_validate"
    /\ trace' = Append(trace, "get_json")
    /\ LET d == review_validate(request.json)
       IN  IF d.done THEN Respond(d.response)
           ELSE pc' = "rv_review" /\ UNCHANGED response
    /\ UNCHANGED <<config, request, verified, raw_output, review_result, props>>

\* manual_review, lines 175-180.
ReviewReview ==
    /\ pc = "rv_review"
    /\ \E outcome \in AIOutcomes : CallReviewer(outcome, "rv_report")
    /\ UNCHANGED <<config, request, verified, props>>

\* manual_review, lines 183-219: render the report, serialize, answer.
ReviewRespond ==
    /\ pc = "rv_report"
    /\ trace' = Append(trace, "generate_markdown_report")
    /\ Respond(Response(200,
          [success |-> TRUE,
           review |-> manual_review_review(review_result.obj),
           markdown_report |-> generate_markdown_report(review_result.obj,
                                 manual_pr_data(request.json.v))]))
    /\ UNCHANGED <<config, request, verified, raw_output, review_result, props>>

\* The response is sent; the server waits for the next request.  Nothing of
\* the request outlives it.
Finish ==
    /\ pc = "done"
    /\ pc' = "idle"
    /\ request' = NoRequest
    /\ trace' = <<>>
    /\ verified' = NotRun
    /\ raw_output' = NoRaw
    /\ review_result' = NotRun
    /\ response' = NoResponse
    /\ UNCHANGED <<config, props>>

Next ==
    \/ WebhookReceive
    \/ WebhookVerify
    \/ WebhookDispatch
    \/ WebhookFetch
    \/ WebhookReview
    \/ WebhookRespond
    \/ ReviewReceive
    \/ ReviewValidate
    \/ ReviewReview
    \/ ReviewRespond
    \/ Finish

Spec == Init /\ [][Next]_vars

\* ------------------------------------------- the signature verifier alone
\* verify_github_signature under every configuration of the secret, on
\* every body and every header of AllHeaders.
InitVerify ==
    /\ GITHUB_WEBHOOK_SECRET \in Secrets
    /\ ALLOWED_REPOS_env = None
    /\ ALLOWED_REPOS = parse_allowed_repos(ALLOWED_REPOS_env)
    /\ pc = "v_idle"
    /\ request = NoRequest
    /\ trace = <<>>
    /\ verified = NotRun
    /\ raw_output = NoRaw
    /\ review_result = NotRun
    /\ props = NoProps
    /\ response = NoResponse

VerifyCall ==
    /\ pc = "v_idle"
    /\ \E data \in Bodies, sig \in AllHeaders :
         request' = [route |-> "verify", data |-> data, signature |-> sig,
                     json |-> JsonNull]
    /\ pc' = "v_called"
    /\ UNCHANGED <<config, trace, verified, raw_output, review_result, props, response>>

VerifyReturn ==
    /\ pc = "v_called"
    /\ verified' = verify_github_signature(GITHUB_WEBHOOK_SECRET, request.data,
                                           request.signature)
    /\ pc' = "v_returned"
    /\ UNCHANGED <<config, request, trace, raw_output, review_result, props, response>>

VerifyNext ==
    /\ pc = "v_returned"
    /\ pc' = "v_idle"
    /\ request' = NoRequest
    /\ verified' = NotRun
    /\ UNCHANGED <<config, trace, raw_output, review_result, props, response>>

NextVerify == VerifyCall \/ VerifyReturn \/ VerifyNext

SpecVerify == InitVerify /\ [][NextVerify]_vars

\* ------------------------------------------------- the result model alone
\* Integer scores around the marks 0 (lower bound), 70 (attention
\* threshold) and 100 (upper bound).
ScoreInts == UNION {(m - ScoreSlack)..(m + ScoreSlack) : m \in {0, 70, 100}}

ScoreInputs ==
    {PyInt(n) : n \in ScoreInts} \cup {NonNumeric("str"), NonNumeric("NoneType")}

ApprovalInputs ==
    {PyStr(a) : a \in {"APPROVE", "REQUEST_CHANGES", "COMMENT", "approve",
                       "UNKNOWN", ""}} \cup {PyNone}

ConfidenceInputs ==
    {PyFloat(-50), PyFloat(85), PyFloat(150), NonNumeric("str"), NonNumeric("NoneType")}

\* Typed records always carry a severity; a mapping may lack the key.
VulnEntries ==
    {Entry("dict", NoKeys)}
    \cup {DictEntry(sev) : sev \in {"CRITICAL", "HIGH", "MEDIUM", "LOW"}}
    \cup {TypedRecord(<<"s">>, sev, "a.py") : sev \in {"CRITICAL", "HIGH", "LOW"}}

IssueEntries ==
    {Entry("dict", NoKeys)}
    \cup {DictEntry(sev) : sev \in {"CRITICAL", "HIGH", "MEDIUM"}}
    \cup {TypedRecord(<<"q">>, sev, "a.py") : sev \in {"HIGH", "LOW"}}

\* Constructor arguments that vary the numeric and enum fields.
ScalarInputs ==
    {[NoRaw EXCEPT !.security_score = s, !.quality_score = q,
                   !.approval = a, !.ai_confidence = c] :
        s \in ScoreInputs, q \in ScoreInputs, a \in ApprovalInputs,
        c \in {PyFloat(85), PyFloat(150)}}
    \cup {[NoRaw EXCEPT !.security_score = s, !.ai_confidence = c] :
            s \in {PyInt(85), NonNumeric("NoneType")}, c \in ConfidenceInputs}

\* Constructor arguments that vary the lists, with scores on either side of
\* the attention threshold.
ListInputs ==
    {[NoRaw EXCEPT !.security_score = PyInt(s), !.quality_score = PyInt(q),
                   !.approval = PyStr(a), !.vulnerabilities = v, !.issues = i] :
        s \in {69, 70}, q \in {69, 70}, a \in {"APPROVE", "REQUEST_CHANGES"},
        v \in SeqsUpTo(VulnEntries, MaxEntries),
        i \in SeqsUpTo(IssueEntries, MaxEntries)}

\* Entries for the renderer: a typed record, a mapping with every key, a
\* mapping with no key, a plain string, and a mapping whose 'type' is None.
RenderEntries ==
    {TypedRecord(<<"s", "_", "q">>, "HIGH", "a.py"),
     Entry("dict", [type |-> <<"Q", "s">>, severity |-> "LOW", file |-> "b.py",
                    description |-> "d", recommendation |-> "r"]),
     Entry("dict", NoKeys),
     Entry("str", NoKeys),
     Entry("dict", [type |-> None])}

RenderIssues ==
    {TypedRecord(<<"q">>, "MEDIUM", "a.py"), Entry("dict", NoKeys),
     Entry("str", NoKeys)}

\* Constructor arguments that vary what the report renders: lists of up to
\* MaxEntries + 1 vulnerabilities, so that a second entry exists.
RenderInputs ==
    {[NoRaw EXCEPT !.security_score = PyInt(85), !.quality_score = PyInt(40),
                   !.approval = PyStr("COMMENT"), !.ai_confidence = PyFloat(85),
                   !.summary = s, !.vulnerabilities = v, !.issues = i,
                   !.recommendations = r] :
        s \in {"", "s"},
        v \in SeqsUpTo(RenderEntries, MaxEntries + 1),
        i \in SeqsUpTo(RenderIssues, MaxEntries),
        r \in {<<>>, <<"r1", "r2">>}}

InitModel ==
    /\ GITHUB_WEBHOOK_SECRET = None
    /\ ALLOWED_REPOS_env = None
    /\ ALLOWED_REPOS = parse_allowed_repos(ALLOWED_REPOS_env)
    /\ pc = "m_idle"
    /\ request = NoRequest
    /\ trace = <<>>
    /\ verified = NotRun
    /\ raw_output = NoRaw
    /\ review_result = NotRun
    /\ props = NoProps
    /\ response = NoResponse

\* ReviewResult(**raw): the dataclass constructor, then __post_init__.
Construct ==
    /\ pc = "m_idle"
    /\ \/ \E raw \in ScalarInputs :
              raw_output' = raw /\ review_result' = ReviewResult_post_init(raw)
       \/ \E raw \in ListInputs :
              raw_output' = raw /\ review_result' = ReviewResult_post_init(raw)
       \/ \E raw \in RenderInputs :
              raw_output' = raw /\ review_result' = ReviewResult_post_init(raw)
    /\ pc' = "m_built"
    /\ UNCHANGED <<config, request, trace, verified, props, response>>

\* Reading the derived properties of a constructed ReviewResult.
ReadProperties ==
    /\ pc = "m_built"
    /\ ~review_result.raised
    /\ props' = [critical_issues_count |-> critical_issues_count(review_result.obj),
                 needs_attention |-> needs_attention(review_result.obj)]
    /\ pc' = "m_read"
    /\ UNCHANGED <<config, request, trace, verified, raw_output, review_result, response>>

\* The pr_data the result model's reports are rendered with.
ModelPrData == [number |-> "7", title |-> "t"]

\* The consumers of a constructed ReviewResult: the response serializer
\* (github_webhook, lines 136-150) and the report renderer.
Consume ==
    /\ pc = "m_built"
    /\ ~review_result.raised
    /\ response' = Response(200,
          [success |-> TRUE,
           review |-> webhook_review(review_result.obj),
           markdown_report |-> generate_markdown_report(review_result.obj, ModelPrData)])
    /\ pc' = "m_consumed"
    /\ UNCHANGED <<config, request, trace, verified, raw_output, review_result, props>>

Discard ==
    /\ pc \in {"m_built", "m_read", "m_consumed"}
    /\ pc' = "m_idle"
    /\ raw_output' = NoRaw
    /\ review_result' = NotRun
    /\ props' = NoProps
    /\ response' = NoResponse
    /\ UNCHANGED <<config, request, trace, verified>>

NextModel == Construct \/ ReadProperties \/ Consume \/ Discard

SpecModel == InitModel /\ [][NextModel]_vars

\* ================================================================= claims
Count(seq, x) == Cardinality({i \in DOMAIN seq : seq[i] = x})

IsWebhook == request.route = "webhook"

IsReview == request.route = "review"

\* The webhook request carries a JSON object.
HasObject == request.json.t = "object"

Authenticated == verified = Returned(TRUE)

AfterSignature == {"get_json", "get_pr_files", "generate_review_async",
                   "generate_markdown_report"}

\* C1: in a webhook request the signature check is the first call made;
\* when it returns false the request ends at once with 401 'Invalid
\* signature', and the payload parse, the file fetch, the AI call and the
\* report renderer never run in that request (they run only after a check
\* that returned true).
C1_SignatureFirst ==
    IsWebhook =>
      /\ trace # <<>> => trace[1] = "verify_github_signature"
      /\ (\E i \in DOMAIN trace : trace[i] \in AfterSignature) => Authenticated
      /\ verified = Returned(FALSE) =>
            /\ pc = "done"
            /\ response = Response(401, [error |-> "Invalid signature"])
            /\ trace = <<"verify_github_signature">>
            /\ review_result = NotRun

\* A request with a secret configured and a header that is present but
\* wrong has been refused.
C1_Witness ==
    /\ IsWebhook /\ pc = "done"
    /\ GITHUB_WEBHOOK_SECRET # None /\ request.signature # None
    /\ verified = Returned(FALSE)
    /\ response.status = 401

SecretConfigured == Truthy(GITHUB_WEBHOOK_SECRET)

\* C2: verify_github_signature returns true for every body and header when
\* no secret is configured; with a secret it returns false for an absent
\* header and otherwise returns true exactly when the header equals
\* 'sha256=' followed by the hex digest of the body keyed by the secret.
C2_VerifyExact ==
    pc = "v_returned" =>
      LET e == expected_signature(GITHUB_WEBHOOK_SECRET, request.data)
      IN  /\ ~SecretConfigured => verified = Returned(TRUE)
          /\ SecretConfigured /\ request.signature = None
                => verified = Returned(FALSE)
          /\ SecretConfigured /\ request.signature # None
                => ((verified = Returned(TRUE)) <=> (request.signature = e))

\* The header differs from the accepted one in exactly one character.
OneCharOff(h, e) ==
    /\ h # None
    /\ Len(h) = Len(e)
    /\ Cardinality({i \in 1..Len(e) : h[i] # e[i]}) = 1

\* A header one character off the accepted one has been refused.
C2_Witness ==
    /\ pc = "v_returned" /\ SecretConfigured
    /\ OneCharOff(request.signature,
                  expected_signature(GITHUB_WEBHOOK_SECRET, request.data))
    /\ verified = Returned(FALSE)

\* The payload's action is none of opened, synchronize, reopened (or the
\* payload has no action).
Ignorable == HasObject /\ dict_get(request.json.v, "action") \notin accepted_actions

\* C3: an authenticated webhook payload whose action is not accepted is
\* answered 200 'Event ignored' right after the parse: no 403 whatever the
\* allow-list, no file fetch, no AI call, no ReviewResult and no report.
C3_IgnoredEvent ==
    IsWebhook /\ Authenticated /\ Ignorable =>
      /\ pc \in {"wh_dispatch", "done"}
      /\ pc = "done" =>
            /\ response = Response(200, [message |-> "Event ignored"])
            /\ trace = <<"verify_github_signature", "get_json">>
            /\ review_result = NotRun

\* An event with no action field, from a repository outside a non-empty
\* allow-list, has been ignored.
C3_Witness ==
    /\ IsWebhook /\ pc = "done" /\ Authenticated /\ HasObject
    /\ "action" \notin DOMAIN request.json.v
    /\ "repository" \in DOMAIN request.json.v
    /\ "full_name" \in DOMAIN request.json.v["repository"]
    /\ ALLOWED_REPOS # <<>>
    /\ ~InList(request.json.v["repository"]["full_name"], ALLOWED_REPOS)
    /\ response.status = 200

\* The payload has an accepted action and names its repository.
Dispatchable ==
    /\ HasObject
    /\ dict_get(request.json.v, "action") \in accepted_actions
    /\ "repository" \in DOMAIN request.json.v
    /\ "full_name" \in DOMAIN request.json.v["repository"]

\* C4: an authenticated payload with an accepted action whose repository is
\* not in a non-empty allow-list is answered 403 'Repository not allowed'
\* with neither the file fetch nor the AI call made; with the allow-list
\* unset or empty no request is answered 403.
C4_AllowList ==
    /\ IsWebhook /\ Authenticated /\ Dispatchable
       /\ ALLOWED_REPOS # <<>>
       /\ ~InList(request.json.v["repository"]["full_name"], ALLOWED_REPOS)
       => /\ pc \in {"wh_dispatch", "done"}
          /\ pc = "done" =>
                /\ response = Response(403, [error |-> "Repository not allowed"])
                /\ trace = <<"verify_github_signature", "get_json">>
    /\ (~Truthy(ALLOWED_REPOS_env) \/ ALLOWED_REPOS = <<>>) => response.status # 403

\* A repository outside the allow-list has been refused, the payload
\* otherwise complete.
C4_Witness ==
    /\ IsWebhook /\ pc = "done" /\ Authenticated /\ Dispatchable
    /\ "pull_request" \in DOMAIN request.json.v
    /\ ALLOWED_REPOS # <<>>
    /\ response.status = 403

\* The direct-review body is not a JSON object holding all of pr_title,
\* pr_body and files.
LacksField ==
    ~(request.json.t = "object"
      /\ {"pr_title", "pr_body", "files"} \subseteq DOMAIN request.json.v)

\* C5: every POST /review request whose body lacks one of pr_title, pr_body,
\* files (a body that is no usable JSON included) is answered 400 with the
\* list of required fields, and the AI collaborator is not called.
C5_MissingFields400 ==
    IsReview /\ pc = "done" /\ LacksField =>
      /\ response = MissingFields
      /\ Count(trace, "generate_review_async") = 0

\* C6: on both entry points the AI collaborator is called at most once per
\* request; when the call fails the request ends with a 500 response that
\* carries the error, with no further call and no report rendered; a
\* request in hand always has a next step until it is answered, it is
\* answered within five calls, and a response exists exactly when the
\* request is done.
C6_SingleAttempt ==
    /\ Count(trace, "generate_review_async") <= 1
    /\ Len(trace) <= 5
    /\ ENABLED Next
    /\ (pc = "done") <=> (response # NoResponse)
    /\ review_result.raised =>
          /\ pc = "done"
          /\ response = InternalError(review_result.exc)
          /\ trace[Len(trace)] = "generate_review_async"
          /\ Count(trace, "generate_markdown_report") = 0

\* The AI collaborator failed on the webhook path and the request ended
\* with 500.
C6_Witness ==
    /\ IsWebhook /\ pc = "done"
    /\ review_result = [raised |-> TRUE, exc |-> "UpstreamError"]
    /\ response.status = 500

\* The integer n brought into [0, 100].
Clamped(n) == IF n < 0 THEN 0 ELSE IF n > 100 THEN 100 ELSE n

IntScores == raw_output.security_score.t = "int" /\ raw_output.quality_score.t = "int"

Built == pc \in {"m_built", "m_read", "m_consumed"}

\* C7: for integer security_score and quality_score inputs the constructed
\* ReviewResult holds each score unchanged when it is within [0, 100], 0
\* when it is below 0 and 100 when it is above 100.
C7_ScoresClamped ==
    Built /\ IntScores /\ ~review_result.raised =>
      /\ review_result.obj.security_score = PyInt(Clamped(raw_output.security_score.v))
      /\ review_result.obj.quality_score = PyInt(Clamped(raw_output.quality_score.v))
      /\ review_result.obj.security_score.v \in 0..100
      /\ review_result.obj.quality_score.v \in 0..100

\* A negative security score and a quality score above 100 were clamped.
C7_Witness ==
    /\ pc = "m_built" /\ IntScores /\ ~review_result.raised
    /\ raw_output.security_score.v < 0
    /\ raw_output.quality_score.v > 100

\* C8: the constructed ReviewResult's approval is one of APPROVE,
\* REQUEST_CHANGES, COMMENT: a valid input is kept, any other input becomes
\* COMMENT; the approval given to the response is the constructed one.
C8_ApprovalNormalized ==
    Built /\ ~review_result.raised =>
      /\ review_result.obj.approval \in valid_approvals
      /\ raw_output.approval \in valid_approvals
            => review_result.obj.approval = raw_output.approval
      /\ raw_output.approval \notin valid_approvals
            => review_result.obj.approval = PyStr("COMMENT")
      /\ pc = "m_consumed"
            => response.body["review"].approval \in valid_approvals

\* An unrecognized verdict was constructed and passed on to the response.
C8_Witness ==
    /\ pc = "m_consumed"
    /\ raw_output.approval = PyStr("UNKNOWN")
    /\ response.body["review"].approval = PyStr("COMMENT")

\* C9: constructing a ReviewResult never raises, whatever the type of the
\* score, confidence and approval inputs.
C9_ConstructionNeverFails ==
    Built => ~review_result.raised

\* Every entry of list l is a typed record or a mapping.
TypedOrMapping(l) == \A i \in DOMAIN l : l[i].kind \in {"obj", "dict"}

\* Entries of list l, typed or mapping, whose severity is in sevs.
SeverityCount(l, sevs) ==
    Cardinality({i \in DOMAIN l : "severity" \in DOMAIN l[i].d
                                  /\ l[i].d["severity"] \in sevs})

\* C10: on lists of typed records or mappings critical_issues_count returns
\* the number of CRITICAL or HIGH vulnerabilities plus the number of HIGH
\* issues, and needs_attention is true exactly when a score is below 70 or
\* that count is positive or the approval is REQUEST_CHANGES.
C10_DerivedProperties ==
    (/\ pc = "m_read"
     /\ TypedOrMapping(review_result.obj.vulnerabilities)
     /\ TypedOrMapping(review_result.obj.issues)) =>
      LET self == review_result.obj
          n == SeverityCount(self.vulnerabilities, {"CRITICAL", "HIGH"})
               + SeverityCount(self.issues, {"HIGH"})
      IN  /\ props.critical_issues_count = [raised |-> FALSE, exc |-> "", val |-> n]
          /\ props.needs_attention =
               [raised |-> FALSE, exc |-> "",
                val |-> (\/ self.security_score.v < 70
                         \/ self.quality_score.v < 70
                         \/ n > 0
                         \/ self.approval = PyStr("REQUEST_CHANGES"))]

\* ------------------------------------------------------------ the report
Report == response.body["markdown_report"]

Rendered == pc = "m_consumed"

\* Indices of the report's lines that open an entry of section sec.
EntryHeadings(sec) ==
    {k \in DOMAIN Report.lines :
        Report.lines[k].sec = sec /\ Report.lines[k].what = "entry"}

Present(sec) == \E k \in DOMAIN Report.lines : Report.lines[k].sec = sec

\* C11: an entry of unexpected shape is rendered with placeholder text
\* while the rest of the report is still emitted: whatever the entries of
\* the two lists are, the rendered document has its header, score table and
\* footer and one entry heading per vulnerability and per issue.
C11_EntriesDegrade ==
    Rendered =>
      /\ Present("header") /\ Present("scores") /\ Present("footer")
      /\ Cardinality(EntryHeadings("vulnerabilities"))
           = Len(review_result.obj.vulnerabilities)
      /\ Cardinality(EntryHeadings("issues")) = Len(review_result.obj.issues)

\* An entry the renderer is written for: a typed record or a mapping whose
\* 'type', when there is one, is a string.
WellFormedEntry(e) ==
    /\ e.kind \in {"obj", "dict"}
    /\ "type" \in DOMAIN e.d => e.d["type"] # None

WellFormed(rr) ==
    /\ \A i \in DOMAIN rr.vulnerabilities : WellFormedEntry(rr.vulnerabilities[i])
    /\ \A i \in DOMAIN rr.issues : WellFormedEntry(rr.issues[i])

SectionOrder == <<"header", "scores", "recommendation", "summary",
                  "vulnerabilities", "issues", "recommendations", "footer">>

SectionRank(sec) == CHOOSE r \in DOMAIN SectionOrder : SectionOrder[r] = sec

\* Field key of entry e as the report shows it.
Shown(e, key, placeholder) == IF key \in DOMAIN e.d THEN e.d[key] ELSE placeholder

\* The entries of section sec are numbered 1, 2, ... in the order of list
\* l, each showing the file and severity of the entry of l at its number.
NumberedInOrder(sec, l) ==
    /\ Cardinality(EntryHeadings(sec)) = Len(l)
    /\ \A k \in EntryHeadings(sec) :
         /\ Report.lines[k].n = Cardinality({j \in EntryHeadings(sec) : j <= k})
         /\ Report.lines[k + 2] =
              Line(sec, Report.lines[k].n, "file",
                   <<Shown(l[Report.lines[k].n], "file", "N/A")>>, 0)
         /\ Report.lines[k + 3].what = "severity"
         /\ Report.lines[k + 3].val[1] = Shown(l[Report.lines[k].n], "severity", "MEDIUM")

\* C12: for a well-formed ReviewResult the report's sections come in the
\* order header, score table, recommendation line, summary, vulnerabilities,
\* issues, recommendations, footer; header, score table, recommendation line
\* and footer are always there, each of the other four is there exactly when
\* its field is non-empty, and vulnerabilities and issues are numbered from
\* 1 in input order.
C12_ReportLayout ==
    (Rendered /\ WellFormed(review_result.obj)) =>
      LET rr == review_result.obj
      IN  /\ Report.kind = "report"
          /\ \A k \in DOMAIN Report.lines :
                /\ Report.lines[k].sec \in {SectionOrder[r] : r \in DOMAIN SectionOrder}
                /\ k > 1 => SectionRank(Report.lines[k - 1].sec)
                              <= SectionRank(Report.lines[k].sec)
          /\ Present("header") /\ Present("scores")
          /\ Present("recommendation") /\ Present("footer")
          /\ Present("summary") <=> rr.summary # ""
          /\ Present("vulnerabilities") <=> rr.vulnerabilities # <<>>
          /\ Present("issues") <=> rr.issues # <<>>
          /\ Present("recommendations") <=> rr.recommendations # <<>>
          /\ NumberedInOrder("vulnerabilities", rr.vulnerabilities)
          /\ NumberedInOrder("issues", rr.issues)

\* A rendered well-formed result with two different vulnerabilities, an
\* issue and recommendations but no summary.
C12_Witness ==
    /\ Rendered
    /\ WellFormed(review_result.obj)
    /\ Len(review_result.obj.vulnerabilities) = 2
    /\ Shown(review_result.obj.vulnerabilities[1], "severity", "MEDIUM")
         # Shown(review_result.obj.vulnerabilities[2], "severity", "MEDIUM")
    /\ review_result.obj.issues # <<>>
    /\ review_result.obj.summary = ""
    /\ review_result.obj.recommendations # <<>>
    /\ Cardinality(EntryHeadings("vulnerabilities")) = 2
    /\ ~Present("summary")

====
